---- MODULE Spec2Model ----
(***************************************************************************)
(* Order service of cloudeats-app (src/services/order-service/src/server.js)*)
(* as a state machine.  The state is the Redis cache of carts, the MongoDB *)
(* orders collection, the wall clock, and the position and locals of each  *)
(* HTTP request in flight.  A handler is split at its awaits: one action   *)
(* is one store command taking effect together with the synchronous code   *)
(* that follows it up to the next await (or the response).  Spec is the    *)
(* service while the clock stands still, SpecClock the service while time  *)
(* passes and cart entries expire, SpecStatus the life of one cart, its    *)
(* checkout and the status updates of its order.  SpecRating is the menu   *)
(* service's validateRating (src/services/menu-service/server.js), a pure  *)
(* function, applied to every value of Ratings.  SpecRegister is the user  *)
(* service's registration (src/services/user-service/src/server.js): the   *)
(* users table and the register requests in flight, split at the callbacks *)
(* of the queries and at the await of the password hash.                   *)
(***************************************************************************)
EXTENDS Integers, Sequences, FiniteSets, TLC

(* ------------------------------ bounds --------------------------------- *)
\* requests accepted over a run
MaxReqs == 3
\* clock steps over a run
MaxTicks == 2
\* seconds the clock advances in one step
TickStep == 43200

\* requests SpecStatus admits beyond MaxReqs
MoreReqs == 1
\* ratings tried lie between -MaxRating and MaxRating, in steps of a half
MaxRating == 12

\* the requests in flight at one time: two, the least that can overlap
Reqs == {1, 2}

(* --------------------------- program constants ------------------------- *)
\* user service: const SALT_ROUNDS = 10
SALT_ROUNDS == 10
\* setEx(cartKey, 86400, ...)
TTL == 86400

validStatuses ==
  {"pending", "confirmed", "preparing", "out_for_delivery", "delivered", "cancelled"}

(* ------------------------------ JS values ------------------------------ *)
\* A JSON scalar used as an identifier: the number n, the decimal string of
\* n, NaN, or undefined.
Num(n) == [t |-> "num", n |-> n]
Str(n) == [t |-> "str", n |-> n]
NaN == [t |-> "nan", n |-> 0]
Undef == [t |-> "undef", n |-> 0]
\* an optional string field that was not supplied
NoStr == "<undefined>"

\* a === b
StrictEq(a, b) == a.t = b.t /\ a.t # "nan" /\ a.n = b.n

\* parseInt(v)
ParseInt(v) == IF v.t \in {"num", "str"} THEN Num(v.n) ELSE NaN

\* `${v}`
ToStr(v) == IF v.t \in {"num", "str"} THEN Str(v.n) ELSE v

\* !v
Falsy(v) == v.t \in {"undef", "nan"} \/ (v.t = "num" /\ v.n = 0)

\* s || d  on optional strings
OrElse(s, d) == IF s = NoStr \/ s = "" THEN d ELSE s

getCartKey(userId) == ToStr(userId)

(* ------------------------- rating values ------------------------------ *)
\* A JavaScript value passed as a rating.  A number is i + 1/2 when half
\* and i otherwise (i its floor); inf is the sign of an infinity; a string
\* is either the decimal literal of such a number (s = "") or the text s.
Value(t, i, half, inf, s) == [t |-> t, i |-> i, half |-> half, inf |-> inf, s |-> s]
Undefined == Value("undefined", 0, FALSE, 0, "")
Null == Value("null", 0, FALSE, 0, "")
Number(i, half) == Value("number", i, half, 0, "")
NotANumber == Value("NaN", 0, FALSE, 0, "")
Infinity(sign) == Value("number", 0, FALSE, sign, "")
Literal(i, half) == Value("literal", i, half, 0, "")
Text(s) == Value("text", 0, FALSE, 0, s)
Boolean(b) == Value("boolean", IF b THEN 1 ELSE 0, FALSE, 0, "")

\* Number(v): numbers map to themselves, numeric text to its number, empty
\* or blank text to 0, other text to NaN, true to 1, false and null to 0,
\* undefined to NaN
ToNumber(v) ==
  CASE v.t = "number" -> v
    [] v.t = "NaN" -> NotANumber
    [] v.t = "literal" -> Number(v.i, v.half)
    [] v.t = "text" -> IF v.s \in {"", " "} THEN Number(0, FALSE)
                       ELSE IF v.s = "Infinity" THEN Infinity(1)
                       ELSE NotANumber
    [] v.t = "boolean" -> Number(v.i, FALSE)
    [] v.t = "null" -> Number(0, FALSE)
    [] v.t = "undefined" -> NotANumber

\* isNaN(n), n < k, n > k and Number.isInteger(n) on numbers, k an integer
isNaN(n) == n.t = "NaN"
Less(n, k) == IF n.inf # 0 THEN n.inf < 0 ELSE n.i < k
Greater(n, k) == IF n.inf # 0 THEN n.inf > 0 ELSE n.i > k \/ (n.i = k /\ n.half)
isInteger(n) == n.t = "number" /\ n.inf = 0 /\ ~n.half

NoVerdict == [valid |-> FALSE, error |-> "<not called>"]

\* validateRating that tests for a whole number before it tests the range
validateRating_IntegerFirst(r) ==
  IF r = Undefined \/ r = Null
  THEN [valid |-> FALSE, error |-> "Rating is required"]
  ELSE LET ratingNum == ToNumber(r) IN
    IF isNaN(ratingNum)
    THEN [valid |-> FALSE, error |-> "Rating must be a number"]
    ELSE IF ~isInteger(ratingNum)
    THEN [valid |-> FALSE, error |-> "Rating must be a whole number"]
    ELSE IF Less(ratingNum, 1) \/ Greater(ratingNum, 5)
    THEN [valid |-> FALSE, error |-> "Rating must be between 1 and 5"]
    ELSE [valid |-> TRUE, error |-> NoStr]

validateRating(r) ==
  IF r = Undefined \/ r = Null
  THEN [valid |-> FALSE, error |-> "Rating is required"]
  ELSE LET ratingNum == ToNumber(r) IN
    IF isNaN(ratingNum)
    THEN [valid |-> FALSE, error |-> "Rating must be a number"]
    ELSE IF Less(ratingNum, 1) \/ Greater(ratingNum, 5)
    THEN [valid |-> FALSE, error |-> "Rating must be between 1 and 5"]
    ELSE IF ~isInteger(ratingNum)
    THEN [valid |-> FALSE, error |-> "Rating must be a whole number"]
    ELSE [valid |-> TRUE, error |-> NoStr]

\* the values validateRating is called with
Ratings ==
  {Undefined, Null, NotANumber, Infinity(1), Infinity(0 - 1),
   Text("five"), Text(""), Text(" "), Text("Infinity"),
   Boolean(TRUE), Boolean(FALSE)}
  \cup {Number(i, h) : i \in (0 - MaxRating)..MaxRating, h \in BOOLEAN}
  \cup {Literal(i, h) : i \in (0 - MaxRating)..MaxRating, h \in BOOLEAN}

(* ------------------------- user service values ------------------------ *)
\* An email or a password is the sequence of its characters; a missing or
\* empty one is <<>>.  full_name and phone are texts, "" when missing.
Whitespace == {" "}

\* /^[^\s@]+@[^\s@]+\.[^\s@]+$/.test(email): one "@", not first, no white
\* space, and a "." after the "@" that is neither next to it nor last
emailRegexTest(email) ==
  \E i \in 2..Len(email) :
    /\ email[i] = "@"
    /\ \A k \in 1..Len(email) : k # i => email[k] \notin Whitespace \cup {"@"}
    /\ \E j \in (i + 2)..(Len(email) - 1) : email[j] = "."

\* the comparison of the email column (MySQL's default collations are case
\* insensitive): both WHERE email = ? and the UNIQUE index compare by it
Lower(c) == IF c = "A" THEN "a" ELSE c
Collate(email) == [i \in 1..Len(email) |-> Lower(email[i])]

\* bcrypt.hash(password, SALT_ROUNDS)
NoHash == [bcrypt |-> <<>>, rounds |-> 0]
bcryptHash(password) == [bcrypt |-> password, rounds |-> SALT_ROUNDS]

\* the users table after CREATE TABLE, and its AUTO_INCREMENT counter
NoUsers == [rows |-> <<>>, autoInc |-> 1]

NoBody == [email |-> <<>>, password |-> <<>>, full_name |-> "", phone |-> ""]

NoRegister == [pc |-> "idle", body |-> NoBody, password_hash |-> NoHash]

NoRegLast ==
  [body |-> NoBody, code |-> 0, error |-> "", err |-> "none", id |-> 0,
   before |-> <<>>]

\* the bodies of POST /api/auth/register
RegisterInputs ==
  {[email |-> <<"a", "@", "b", ".", "c">>,
    password |-> <<"s", "e", "c", "r", "e", "t">>,
    full_name |-> "Ann", phone |-> "555"],
   [email |-> <<"A", "@", "b", ".", "c">>,
    password |-> <<"s", "e", "c", "r", "e", "t">>,
    full_name |-> "Bob", phone |-> ""],
   [email |-> <<"d", "@", "b", ".", "c">>,
    password |-> <<"p", "a", "s", "s", "w", "d", "1">>,
    full_name |-> "Dee", phone |-> ""],
   [email |-> <<"a", "@", "b">>,
    password |-> <<"s", "e", "c", "r", "e", "t">>,
    full_name |-> "Eve", phone |-> ""],
   [email |-> <<"a", " ", "@", "b", ".", "c">>,
    password |-> <<"s", "e", "c", "r", "e", "t">>,
    full_name |-> "Fay", phone |-> ""],
   [email |-> <<"d", "@", "b", ".", "c">>,
    password |-> <<"s", "h", "o", "r", "t">>,
    full_name |-> "Gus", phone |-> ""],
   [email |-> <<>>,
    password |-> <<"s", "e", "c", "r", "e", "t">>,
    full_name |-> "Hal", phone |-> ""],
   [email |-> <<"d", "@", "b", ".", "c">>,
    password |-> <<"s", "e", "c", "r", "e", "t">>,
    full_name |-> "", phone |-> ""]}

(* ------------------------------ inputs --------------------------------- *)
\* req.params.userId of the cart routes
UrlUsers == {Str(1)}
\* req.body of POST /api/cart/:userId/items
AddInputs ==
  { [itemId |-> Num(1), itemName |-> "Pizza", price |-> 10, quantity |-> 2],
    [itemId |-> Num(1), itemName |-> "Pasta", price |-> 12, quantity |-> -1],
    [itemId |-> Str(1), itemName |-> "Soda", price |-> 3, quantity |-> 1],
    [itemId |-> Str(1), itemName |-> "Soda", price |-> 3, quantity |-> 0] }
\* req.params.itemId and req.body.quantity of
\* PUT /api/cart/:userId/items/:itemId
UpdateInputs ==
  { [itemId |-> Str(1), quantity |-> 0],
    [itemId |-> Str(1), quantity |-> -1],
    [itemId |-> Str(1), quantity |-> 1],
    [itemId |-> Str(2), quantity |-> 1] }
\* req.body of POST /api/orders
OrderInputs ==
  { [userId |-> Undef, deliveryAddress |-> "123 Main St", notes |-> NoStr,
     paymentMethod |-> NoStr],
    [userId |-> Num(1), deliveryAddress |-> NoStr, notes |-> NoStr,
     paymentMethod |-> NoStr],
    [userId |-> Num(1), deliveryAddress |-> "123 Main St", notes |-> NoStr,
     paymentMethod |-> NoStr],
    [userId |-> Str(1), deliveryAddress |-> "123 Main St", notes |-> "ring",
     paymentMethod |-> "card"] }
\* req.params.orderId: the 24-hex-digit text of the n-th ObjectId, or text
\* that is no ObjectId
Oid(n) == [wf |-> TRUE, n |-> n]
BadOid == [wf |-> FALSE, n |-> 0]
UrlOrders == {Oid(1), Oid(2), BadOid}
\* req.params.orderId and req.body.status of PUT /api/orders/:orderId/status
StatusInputs ==
  {[orderId |-> Oid(1), status |-> st] : st \in validStatuses \cup {"bogus"}}
    \cup {[orderId |-> Oid(2), status |-> "confirmed"],
          [orderId |-> BadOid, status |-> "confirmed"]}

(* ------------------------------- state --------------------------------- *)
VARIABLES
  cache,     \* Redis: cart key -> entry (value text and expiry time)
  orders,    \* MongoDB orders collection, in insertion order; _id = index
  now,       \* wall clock, seconds
  req,       \* per request in flight: route, params and body, the store
             \* command it is waiting on, and the handler's cart, order, result
  last,      \* the request that was answered last, with its response and
             \* the stores as they were before the answering step
  started,   \* requests accepted so far
  checkout,  \* history, per cart key: a checkout was answered 201 (done), and
             \* since then a cart write was accepted / has taken effect
  rating,    \* menu service: the argument of validateRating
  verdict,   \* menu service: what validateRating returned for it
  users,     \* user service: the MySQL users table and its AUTO_INCREMENT
  reg,       \* user service: per register request in flight, its body, the
             \* query it is waiting on and its password_hash
  regLast    \* user service: the register request answered last, with its
             \* response, the query error, and the rows before the answer

vars ==
  <<cache, orders, now, req, last, started, checkout, rating, verdict,
    users, reg, regLast>>

\* the state of the menu service's rating check: the order service never
\* touches it
menu == <<rating, verdict>>

\* the state of the user service: the order service never touches it
auth == <<users, reg, regLast>>

Keys == {getCartKey(u) : u \in UrlUsers}

EmptyCart == [items |-> <<>>, total |-> 0]

\* JSON.stringify / JSON.parse of a cart whose fields are integers and
\* strings: the text determines the value and the value the text.
Stringify(cart) == [json |-> cart]
Parse(text) == text.json

NoEntry == [has |-> FALSE, data |-> Stringify(EmptyCart), exp |-> 0]

NoOrder ==
  [_id |-> 0, userId |-> Undef, items |-> <<>>, totalAmount |-> 0,
   deliveryAddress |-> NoStr, notes |-> NoStr, paymentMethod |-> NoStr,
   status |-> NoStr, createdAt |-> 0, updatedAt |-> 0]

NoArgs ==
  [userId |-> Undef, itemId |-> Undef, itemName |-> NoStr, price |-> 0,
   quantity |-> 0, deliveryAddress |-> NoStr, notes |-> NoStr,
   paymentMethod |-> NoStr, orderId |-> BadOid, status |-> NoStr]

NoLocal == [cart |-> EmptyCart, order |-> NoOrder, result |-> 0]

Idle == [kind |-> "none", pc |-> "idle", args |-> NoArgs, local |-> NoLocal]

NoCheckout == [done |-> FALSE, accepted |-> FALSE, written |-> FALSE]

NoLast ==
  [kind |-> "none", args |-> NoArgs, local |-> NoLocal, code |-> 0,
   error |-> "", cart |-> EmptyCart, order |-> NoOrder,
   before |-> [orders |-> <<>>,
               carts |-> [k \in Keys |-> [has |-> FALSE,
                                          data |-> Stringify(EmptyCart)]]]]

(* ------------------------------ helpers -------------------------------- *)
\* findIndex on a field the items do not have: never a match
findIndex_WrongField(items, itemId) == 0

\* cart.items.findIndex(item => item.itemId === itemId), 1-based; 0 for -1
findIndex(items, itemId) ==
  IF \E i \in 1..Len(items) : StrictEq(items[i].itemId, itemId)
  THEN CHOOSE i \in 1..Len(items) :
         /\ StrictEq(items[i].itemId, itemId)
         /\ \A j \in 1..(i - 1) : ~StrictEq(items[j].itemId, itemId)
  ELSE 0

\* cart.items.reduce((sum, item) => sum + (item.price * item.quantity), 0)
RECURSIVE reduceTotal(_)
reduceTotal(items) ==
  IF items = <<>> THEN 0
  ELSE reduceTotal(SubSeq(items, 1, Len(items) - 1))
         + items[Len(items)].price * items[Len(items)].quantity

\* cart.items.splice(i, 1)
splice(items, i) == SubSeq(items, 1, i - 1) \o SubSeq(items, i + 1, Len(items))

\* redisClient.get(key): the text, or null (modelled by has = FALSE)
redisGet(key) == cache[key]

\* redisSetEx that keeps the expiry of a record it overwrites
redisSetEx_KeepTtl(key, text) ==
  [cache EXCEPT ![key] = [has |-> TRUE, data |-> text,
                          exp |-> IF cache[key].has THEN cache[key].exp
                                  ELSE now + TTL]]

\* redisClient.setEx(key, TTL, text)
redisSetEx(key, text) ==
  [cache EXCEPT ![key] = [has |-> TRUE, data |-> text, exp |-> now + TTL]]

\* redisClient.del(key)
redisDel(key) == [cache EXCEPT ![key] = NoEntry]

\* cartKey of a request
KeyOf(r) == getCartKey(req[r].args.userId)

\* addItemMerge that assigns the quantity instead of adding it
addItemMerge_Overwrite(cart, a) ==
  LET i == findIndex(cart.items, a.itemId)
      items == IF i > 0
               THEN [cart.items EXCEPT ![i].quantity = a.quantity]
               ELSE Append(cart.items,
                           [itemId |-> a.itemId, itemName |-> a.itemName,
                            price |-> a.price, quantity |-> a.quantity])
  IN  [items |-> items, total |-> reduceTotal(items)]

\* addItemMerge that takes an item out when its quantity is not positive
addItemMerge_DropsNonPositive(cart, a) ==
  LET i == findIndex(cart.items, a.itemId)
      merged == IF i > 0
                THEN [cart.items EXCEPT ![i].quantity = @ + a.quantity]
                ELSE Append(cart.items,
                            [itemId |-> a.itemId, itemName |-> a.itemName,
                             price |-> a.price, quantity |-> a.quantity])
      j == IF i > 0 THEN i ELSE Len(merged)
      items == IF merged[j].quantity <= 0 THEN splice(merged, j) ELSE merged
  IN  [items |-> items, total |-> reduceTotal(items)]

\* the merge of POST /api/cart/:userId/items
addItemMerge(cart, a) ==
  LET i == findIndex(cart.items, a.itemId)
      items == IF i > 0
               THEN [cart.items EXCEPT ![i].quantity = @ + a.quantity]
               ELSE Append(cart.items,
                           [itemId |-> a.itemId, itemName |-> a.itemName,
                            price |-> a.price, quantity |-> a.quantity])
  IN  [items |-> items, total |-> reduceTotal(items)]

\* updateItemApply that keeps the total it read
updateItemApply_StaleTotal(cart, i, quantity) ==
  LET items == IF quantity <= 0
               THEN splice(cart.items, i)
               ELSE [cart.items EXCEPT ![i].quantity = quantity]
  IN  [items |-> items, total |-> cart.total]

\* updateItemApply that removes the item only below zero
updateItemApply_KeepsZero(cart, i, quantity) ==
  LET items == IF quantity < 0
               THEN splice(cart.items, i)
               ELSE [cart.items EXCEPT ![i].quantity = quantity]
  IN  [items |-> items, total |-> reduceTotal(items)]

\* the update of PUT /api/cart/:userId/items/:itemId, for itemIndex i > 0
updateItemApply(cart, i, quantity) ==
  LET items == IF quantity <= 0
               THEN splice(cart.items, i)
               ELSE [cart.items EXCEPT ![i].quantity = quantity]
  IN  [items |-> items, total |-> reduceTotal(items)]

\* buildOrder without the defaults of notes and paymentMethod
buildOrder_NoDefaults(a, cart) ==
  [_id |-> 0, userId |-> ParseInt(a.userId), items |-> cart.items,
   totalAmount |-> cart.total, deliveryAddress |-> a.deliveryAddress,
   notes |-> a.notes, paymentMethod |-> a.paymentMethod,
   status |-> "pending", createdAt |-> now, updatedAt |-> now]

\* the order document of POST /api/orders
buildOrder(a, cart) ==
  [_id |-> 0, userId |-> ParseInt(a.userId), items |-> cart.items,
   totalAmount |-> cart.total, deliveryAddress |-> a.deliveryAddress,
   notes |-> OrElse(a.notes, ""), paymentMethod |-> OrElse(a.paymentMethod, "cash"),
   status |-> "pending", createdAt |-> now, updatedAt |-> now]

\* ordersCollection.insertOne(order): the collection after the insert
insertOne(order) == Append(orders, [order EXCEPT !._id = Len(orders) + 1])

\* ordersCollection.findOne({_id}): index of the match, 0 for null
findOne(oid) == IF oid.n \in 1..Len(orders) THEN oid.n ELSE 0


(* ------------------------------ plumbing ------------------------------- *)
\* express can dispatch a new request to slot r
CanAccept(r) ==
  /\ req[r].pc = "idle"
  /\ \A q \in 1..(r - 1) : req[q].pc # "idle"
  /\ started < MaxReqs

\* the handler of route k runs up to its first await, on store command p
Accept(r, k, a, p, l) ==
  /\ CanAccept(r)
  /\ started' = started + 1
  /\ req' = [req EXCEPT ![r] = [kind |-> k, pc |-> p, args |-> a, local |-> l]]
  /\ checkout' = IF k \in {"addItem", "updateItemQuantity"}
                 THEN [checkout EXCEPT ![getCartKey(a.userId)].accepted = TRUE]
                 ELSE checkout
  /\ UNCHANGED <<last, menu, auth>>

\* res.status(code).json(...) of the request (k, a, l): the handler is over
Respond(r, k, a, l, code, error, cart, order) ==
  /\ req' = [req EXCEPT ![r] = Idle]
  /\ last' = [kind |-> k, args |-> a, local |-> l, code |-> code,
              error |-> error, cart |-> cart, order |-> order,
              before |-> [orders |-> orders,
                          carts |-> [key \in Keys |->
                                       [has |-> cache[key].has,
                                        data |-> cache[key].data]]]]
  /\ UNCHANGED <<menu, auth>>

\* the handler answers before its first await
Reject(r, k, a, code, error) ==
  /\ CanAccept(r)
  /\ started' = started + 1
  /\ Respond(r, k, a, NoLocal, code, error, EmptyCart, NoOrder)
  /\ UNCHANGED checkout

\* the handler of request r answers
Reply(r, code, error, cart, order) ==
  Respond(r, req[r].kind, req[r].args, req[r].local, code, error, cart, order)

\* the catch block of the handler of request r
Catch(r, error) == Reply(r, 500, error, EmptyCart, NoOrder)

\* the handler of request r goes on to its next await, on store command p
Await(r, p, l) ==
  /\ req' = [req EXCEPT ![r].pc = p, ![r].local = l]
  /\ UNCHANGED <<last, menu, auth>>

At(r, k, p) == req[r].kind = k /\ req[r].pc = p

Init ==
  /\ cache = [k \in Keys |-> NoEntry]
  /\ orders = <<>>
  /\ now = 0
  /\ req = [r \in Reqs |-> Idle]
  /\ last = NoLast
  /\ started = 0
  /\ checkout = [k \in Keys |-> NoCheckout]
  /\ rating = Undefined
  /\ verdict = NoVerdict
  /\ users = NoUsers
  /\ reg = [r \in Reqs |-> NoRegister]
  /\ regLast = NoRegLast

(* -------------------- GET /api/cart/:userId ---------------------------- *)
getCartStart(r, u) ==
  /\ Accept(r, "getCart", [NoArgs EXCEPT !.userId = u], "get", NoLocal)
  /\ UNCHANGED <<cache, orders, now>>

getCartGet(r, ok) ==
  /\ At(r, "getCart", "get")
  /\ LET cartData == redisGet(KeyOf(r)) IN
       IF ~ok THEN Catch(r, "Failed to get cart")
       ELSE IF ~cartData.has THEN Reply(r, 200, "", EmptyCart, NoOrder)
       ELSE Reply(r, 200, "", Parse(cartData.data), NoOrder)
  /\ UNCHANGED <<cache, orders, now, started, checkout>>

(* -------------------- POST /api/cart/:userId/items --------------------- *)
addItemStart(r, u, in) ==
  /\ Accept(r, "addItem",
            [NoArgs EXCEPT !.userId = u, !.itemId = in.itemId,
                           !.itemName = in.itemName, !.price = in.price,
                           !.quantity = in.quantity],
            "get", NoLocal)
  /\ UNCHANGED <<cache, orders, now>>

addItemGet(r, ok) ==
  /\ At(r, "addItem", "get")
  /\ IF ~ok
     THEN Catch(r, "Failed to add item to cart")
     ELSE LET cartData == redisGet(KeyOf(r))
              cart == IF cartData.has THEN Parse(cartData.data) ELSE EmptyCart
          IN  Await(r, "setEx",
                    [req[r].local EXCEPT !.cart = addItemMerge(cart, req[r].args)])
  /\ UNCHANGED <<cache, orders, now, started, checkout>>

\* addItemSetEx that merges the item into the cart stored at the time of the
\* write
addItemSetEx_Atomic(r, ok) ==
  /\ At(r, "addItem", "setEx")
  /\ IF ~ok
     THEN /\ Catch(r, "Failed to add item to cart")
          /\ UNCHANGED <<cache, checkout>>
     ELSE LET cartData == redisGet(KeyOf(r))
              cart == IF cartData.has THEN Parse(cartData.data) ELSE EmptyCart
              merged == addItemMerge(cart, req[r].args)
          IN  /\ cache' = redisSetEx(KeyOf(r), Stringify(merged))
              /\ checkout' = [checkout EXCEPT ![KeyOf(r)].written = TRUE]
              /\ Reply(r, 200, "", merged, NoOrder)
  /\ UNCHANGED <<orders, now, started>>

addItemSetEx(r, ok) ==
  /\ At(r, "addItem", "setEx")
  /\ IF ~ok
     THEN /\ Catch(r, "Failed to add item to cart")
          /\ UNCHANGED <<cache, checkout>>
     ELSE /\ cache' = redisSetEx(KeyOf(r), Stringify(req[r].local.cart))
          /\ checkout' = [checkout EXCEPT ![KeyOf(r)].written = TRUE]
          /\ Reply(r, 200, "", req[r].local.cart, NoOrder)
  /\ UNCHANGED <<orders, now, started>>

(* -------------------- PUT /api/cart/:userId/items/:itemId -------------- *)
updateItemQuantityStart(r, u, in) ==
  /\ Accept(r, "updateItemQuantity",
            [NoArgs EXCEPT !.userId = u, !.itemId = in.itemId,
                           !.quantity = in.quantity],
            "get", NoLocal)
  /\ UNCHANGED <<cache, orders, now>>

updateItemQuantityGet(r, ok) ==
  /\ At(r, "updateItemQuantity", "get")
  /\ LET cartData == redisGet(KeyOf(r))
         cart == Parse(cartData.data)
         itemId == ParseInt(req[r].args.itemId)
         itemIndex == findIndex(cart.items, itemId)
     IN
       IF ~ok THEN Catch(r, "Failed to update cart")
       ELSE IF ~cartData.has
       THEN Reply(r, 404, "Cart not found", EmptyCart, NoOrder)
       ELSE IF itemIndex = 0
       THEN Reply(r, 404, "Item not found in cart", EmptyCart, NoOrder)
       ELSE Await(r, "setEx",
                  [req[r].local EXCEPT !.cart =
                     updateItemApply(cart, itemIndex, req[r].args.quantity)])
  /\ UNCHANGED <<cache, orders, now, started, checkout>>

updateItemQuantitySetEx(r, ok) ==
  /\ At(r, "updateItemQuantity", "setEx")
  /\ IF ~ok
     THEN /\ Catch(r, "Failed to update cart")
          /\ UNCHANGED <<cache, checkout>>
     ELSE /\ cache' = redisSetEx(KeyOf(r), Stringify(req[r].local.cart))
          /\ checkout' = [checkout EXCEPT ![KeyOf(r)].written = TRUE]
          /\ Reply(r, 200, "", req[r].local.cart, NoOrder)
  /\ UNCHANGED <<orders, now, started>>

(* -------------------- DELETE /api/cart/:userId ------------------------- *)
clearCartStart(r, u) ==
  /\ Accept(r, "clearCart", [NoArgs EXCEPT !.userId = u], "del", NoLocal)
  /\ UNCHANGED <<cache, orders, now>>

clearCartDel(r, ok) ==
  /\ At(r, "clearCart", "del")
  /\ IF ~ok
     THEN /\ Catch(r, "Failed to clear cart")
          /\ UNCHANGED cache
     ELSE /\ cache' = redisDel(KeyOf(r))
          /\ Reply(r, 200, "", EmptyCart, NoOrder)
  /\ UNCHANGED <<orders, now, started, checkout>>

(* -------------------- POST /api/orders --------------------------------- *)
placeOrderStart(r, in) ==
  /\ LET a == [NoArgs EXCEPT !.userId = in.userId,
                             !.deliveryAddress = in.deliveryAddress,
                             !.notes = in.notes,
                             !.paymentMethod = in.paymentMethod]
     IN  IF Falsy(in.userId) \/ OrElse(in.deliveryAddress, NoStr) = NoStr
         THEN Reject(r, "placeOrder", a, 400,
                     "User ID and delivery address are required")
         ELSE Accept(r, "placeOrder", a, "get", NoLocal)
  /\ UNCHANGED <<cache, orders, now>>

\* placeOrderGet that drops a cart record without items before rejecting
placeOrderGet_DropsEmptyCart(r, ok) ==
  /\ At(r, "placeOrder", "get")
  /\ LET cartData == redisGet(KeyOf(r))
         cart == Parse(cartData.data)
     IN
       IF ~ok THEN Catch(r, "Failed to place order") /\ UNCHANGED cache
       ELSE IF ~cartData.has
       THEN Reply(r, 400, "Cart is empty", EmptyCart, NoOrder) /\ UNCHANGED cache
       ELSE IF Len(cart.items) = 0
       THEN /\ Reply(r, 400, "Cart is empty", EmptyCart, NoOrder)
            /\ cache' = redisDel(KeyOf(r))
       ELSE /\ Await(r, "insertOne",
                     [req[r].local EXCEPT !.cart = cart,
                                          !.order = buildOrder(req[r].args, cart)])
            /\ UNCHANGED cache
  /\ UNCHANGED <<orders, now, started, checkout>>

placeOrderGet(r, ok) ==
  /\ At(r, "placeOrder", "get")
  /\ LET cartData == redisGet(KeyOf(r))
         cart == Parse(cartData.data)
     IN
       IF ~ok THEN Catch(r, "Failed to place order")
       ELSE IF ~cartData.has
       THEN Reply(r, 400, "Cart is empty", EmptyCart, NoOrder)
       ELSE IF Len(cart.items) = 0
       THEN Reply(r, 400, "Cart is empty", EmptyCart, NoOrder)
       ELSE Await(r, "insertOne",
                  [req[r].local EXCEPT !.cart = cart,
                                       !.order = buildOrder(req[r].args, cart)])
  /\ UNCHANGED <<cache, orders, now, started, checkout>>

\* placeOrderInsertOne that clears the cart whether or not the insert succeeds
placeOrderInsertOne_ClearsCart(r, ok) ==
  /\ At(r, "placeOrder", "insertOne")
  /\ IF ~ok
     THEN /\ Catch(r, "Failed to place order")
          /\ UNCHANGED orders
     ELSE /\ orders' = insertOne(req[r].local.order)
          /\ Await(r, "del",
                   [req[r].local EXCEPT !.result = Len(orders) + 1,
                                        !.order._id = Len(orders) + 1])
  /\ cache' = redisDel(KeyOf(r))
  /\ UNCHANGED <<now, started, checkout>>

placeOrderInsertOne(r, ok) ==
  /\ At(r, "placeOrder", "insertOne")
  /\ IF ~ok
     THEN /\ Catch(r, "Failed to place order")
          /\ UNCHANGED orders
     ELSE /\ orders' = insertOne(req[r].local.order)
          /\ Await(r, "del",
                   [req[r].local EXCEPT !.result = Len(orders) + 1,
                                        !.order._id = Len(orders) + 1])
  /\ UNCHANGED <<cache, now, started, checkout>>

\* placeOrderDel that answers 201 without deleting the cart
placeOrderDel_KeepsCart(r, ok) ==
  /\ At(r, "placeOrder", "del")
  /\ IF ~ok
     THEN /\ Catch(r, "Failed to place order")
          /\ UNCHANGED checkout
     ELSE /\ checkout' = [checkout EXCEPT ![KeyOf(r)] =
                            [done |-> TRUE, accepted |-> FALSE, written |-> FALSE]]
          /\ Reply(r, 201, "", EmptyCart, req[r].local.order)
  /\ UNCHANGED <<cache, orders, now, started>>

\* placeOrderDel that takes the order back when the delete fails
placeOrderDel_RollsBack(r, ok) ==
  /\ At(r, "placeOrder", "del")
  /\ IF ~ok
     THEN /\ Catch(r, "Failed to place order")
          /\ orders' = SubSeq(orders, 1, req[r].local.result - 1)
                         \o SubSeq(orders, req[r].local.result + 1, Len(orders))
          /\ UNCHANGED <<cache, checkout>>
     ELSE /\ cache' = redisDel(KeyOf(r))
          /\ checkout' = [checkout EXCEPT ![KeyOf(r)] =
                            [done |-> TRUE, accepted |-> FALSE, written |-> FALSE]]
          /\ Reply(r, 201, "", EmptyCart, req[r].local.order)
          /\ UNCHANGED orders
  /\ UNCHANGED <<now, started>>

placeOrderDel(r, ok) ==
  /\ At(r, "placeOrder", "del")
  /\ IF ~ok
     THEN /\ Catch(r, "Failed to place order")
          /\ UNCHANGED <<cache, checkout>>
     ELSE /\ cache' = redisDel(KeyOf(r))
          /\ checkout' = [checkout EXCEPT ![KeyOf(r)] =
                            [done |-> TRUE, accepted |-> FALSE, written |-> FALSE]]
          /\ Reply(r, 201, "", EmptyCart, req[r].local.order)
  /\ UNCHANGED <<orders, now, started>>

(* -------------------- GET /api/orders/:orderId ------------------------- *)
getOrderStart(r, oid) ==
  /\ LET a == [NoArgs EXCEPT !.orderId = oid] IN
       IF ~oid.wf
       THEN Reject(r, "getOrder", a, 500, "Failed to get order")
       ELSE Accept(r, "getOrder", a, "findOne", NoLocal)
  /\ UNCHANGED <<cache, orders, now>>

getOrderFindOne(r, ok) ==
  /\ At(r, "getOrder", "findOne")
  /\ LET i == findOne(req[r].args.orderId) IN
       IF ~ok THEN Catch(r, "Failed to get order")
       ELSE IF i = 0 THEN Reply(r, 404, "Order not found", EmptyCart, NoOrder)
       ELSE Reply(r, 200, "", EmptyCart, orders[i])
  /\ UNCHANGED <<cache, orders, now, started, checkout>>

(* -------------------- PUT /api/orders/:orderId/status ------------------ *)
\* updateOrderStatusStart that does not check the status
updateOrderStatusStart_AnyStatus(r, in) ==
  /\ LET oid == in.orderId
         st == in.status
         a == [NoArgs EXCEPT !.orderId = oid, !.status = st]
     IN
       IF ~oid.wf
       THEN Reject(r, "updateOrderStatus", a, 500, "Failed to update order status")
       ELSE Accept(r, "updateOrderStatus", a, "updateOne",
                   [NoLocal EXCEPT !.order.status = st, !.order.updatedAt = now])
  /\ UNCHANGED <<cache, orders, now>>

updateOrderStatusStart(r, in) ==
  /\ LET oid == in.orderId
         st == in.status
         a == [NoArgs EXCEPT !.orderId = oid, !.status = st]
     IN
       IF st \notin validStatuses
       THEN Reject(r, "updateOrderStatus", a, 400, "Invalid status")
       ELSE IF ~oid.wf
       THEN Reject(r, "updateOrderStatus", a, 500, "Failed to update order status")
       ELSE Accept(r, "updateOrderStatus", a, "updateOne",
                   [NoLocal EXCEPT !.order.status = st, !.order.updatedAt = now])
  /\ UNCHANGED <<cache, orders, now>>

\* updateOrderStatusUpdateOne that replaces the document instead of $set
updateOrderStatusUpdateOne_Replaces(r, ok) ==
  /\ At(r, "updateOrderStatus", "updateOne")
  /\ LET i == findOne(req[r].args.orderId) IN
       IF ~ok
       THEN /\ Catch(r, "Failed to update order status")
            /\ UNCHANGED orders
       ELSE IF i = 0
       THEN /\ Reply(r, 404, "Order not found", EmptyCart, NoOrder)
            /\ UNCHANGED orders
       ELSE /\ orders' = [orders EXCEPT
                            ![i] = [req[r].local.order EXCEPT !._id = i]]
            /\ Reply(r, 200, "", EmptyCart, NoOrder)
  /\ UNCHANGED <<cache, now, started, checkout>>

\* updateOrderStatusUpdateOne that leaves a delivered or cancelled order alone
updateOrderStatusUpdateOne_TerminalGuard(r, ok) ==
  /\ At(r, "updateOrderStatus", "updateOne")
  /\ LET i == findOne(req[r].args.orderId) IN
       IF ~ok
       THEN /\ Catch(r, "Failed to update order status")
            /\ UNCHANGED orders
       ELSE IF i = 0
       THEN /\ Reply(r, 404, "Order not found", EmptyCart, NoOrder)
            /\ UNCHANGED orders
       ELSE IF orders[i].status \in {"delivered", "cancelled"}
       THEN /\ Reply(r, 400, "Invalid status", EmptyCart, NoOrder)
            /\ UNCHANGED orders
       ELSE /\ orders' = [orders EXCEPT
                            ![i].status = req[r].local.order.status,
                            ![i].updatedAt = req[r].local.order.updatedAt]
            /\ Reply(r, 200, "", EmptyCart, NoOrder)
  /\ UNCHANGED <<cache, now, started, checkout>>

updateOrderStatusUpdateOne(r, ok) ==
  /\ At(r, "updateOrderStatus", "updateOne")
  /\ LET i == findOne(req[r].args.orderId) IN
       IF ~ok
       THEN /\ Catch(r, "Failed to update order status")
            /\ UNCHANGED orders
       ELSE IF i = 0
       THEN /\ Reply(r, 404, "Order not found", EmptyCart, NoOrder)
            /\ UNCHANGED orders
       ELSE /\ orders' = [orders EXCEPT
                            ![i].status = req[r].local.order.status,
                            ![i].updatedAt = req[r].local.order.updatedAt]
            /\ Reply(r, 200, "", EmptyCart, NoOrder)
  /\ UNCHANGED <<cache, now, started, checkout>>

(* -------------------- environment -------------------------------------- *)
\* time passes; Redis drops the entries whose time-to-live has run out
Tick ==
  /\ now < MaxTicks * TickStep
  /\ now' = now + TickStep
  /\ cache' = [k \in Keys |->
                 IF cache[k].has /\ cache[k].exp <= now + TickStep
                 THEN NoEntry ELSE cache[k]]
  /\ UNCHANGED <<orders, req, last, started, checkout, menu, auth>>

Next ==
  \/ \E r \in Reqs, u \in UrlUsers : getCartStart(r, u)
  \/ \E r \in Reqs, ok \in BOOLEAN : getCartGet(r, ok)
  \/ \E r \in Reqs, u \in UrlUsers, in \in AddInputs : addItemStart(r, u, in)
  \/ \E r \in Reqs, ok \in BOOLEAN : addItemGet(r, ok)
  \/ \E r \in Reqs, ok \in BOOLEAN : addItemSetEx(r, ok)
  \/ \E r \in Reqs, u \in UrlUsers, in \in UpdateInputs :
       updateItemQuantityStart(r, u, in)
  \/ \E r \in Reqs, ok \in BOOLEAN : updateItemQuantityGet(r, ok)
  \/ \E r \in Reqs, ok \in BOOLEAN : updateItemQuantitySetEx(r, ok)
  \/ \E r \in Reqs, u \in UrlUsers : clearCartStart(r, u)
  \/ \E r \in Reqs, ok \in BOOLEAN : clearCartDel(r, ok)
  \/ \E r \in Reqs, in \in OrderInputs : placeOrderStart(r, in)
  \/ \E r \in Reqs, ok \in BOOLEAN : placeOrderGet(r, ok)
  \/ \E r \in Reqs, ok \in BOOLEAN : placeOrderInsertOne(r, ok)
  \/ \E r \in Reqs, ok \in BOOLEAN : placeOrderDel(r, ok)
  \/ \E r \in Reqs, oid \in UrlOrders : getOrderStart(r, oid)
  \/ \E r \in Reqs, ok \in BOOLEAN : getOrderFindOne(r, ok)
  \/ \E r \in Reqs, in \in StatusInputs : updateOrderStatusStart(r, in)
  \/ \E r \in Reqs, ok \in BOOLEAN : updateOrderStatusUpdateOne(r, ok)

\* the service while the clock stands still
Spec == Init /\ [][Next]_vars

\* the service while time passes
NextClock == Next \/ Tick

SpecClock == Init /\ [][NextClock]_vars

\* the order routes alone, with MoreReqs more requests than the other
\* specifications admit: one cart, its checkout and status updates
InitStatus ==
  /\ cache = [k \in Keys |-> NoEntry]
  /\ orders = <<>>
  /\ now = 0
  /\ req = [r \in Reqs |-> Idle]
  /\ last = NoLast
  /\ started = 0 - MoreReqs
  /\ checkout = [k \in Keys |-> NoCheckout]
  /\ rating = Undefined
  /\ verdict = NoVerdict
  /\ users = NoUsers
  /\ reg = [r \in Reqs |-> NoRegister]
  /\ regLast = NoRegLast

NextStatus ==
  \/ \E r \in Reqs, u \in UrlUsers, in \in {a \in AddInputs : a.quantity > 1} :
       addItemStart(r, u, in)
  \/ \E r \in Reqs, ok \in BOOLEAN : addItemGet(r, ok)
  \/ \E r \in Reqs, ok \in BOOLEAN : addItemSetEx(r, ok)
  \/ \E r \in Reqs, in \in {o \in OrderInputs : o.notes # NoStr} :
       placeOrderStart(r, in)
  \/ \E r \in Reqs, ok \in BOOLEAN : placeOrderGet(r, ok)
  \/ \E r \in Reqs, ok \in BOOLEAN : placeOrderInsertOne(r, ok)
  \/ \E r \in Reqs, ok \in BOOLEAN : placeOrderDel(r, ok)
  \/ \E r \in Reqs, in \in StatusInputs : updateOrderStatusStart(r, in)
  \/ \E r \in Reqs, ok \in BOOLEAN : updateOrderStatusUpdateOne(r, ok)
  \/ Tick

SpecStatus == InitStatus /\ [][NextStatus]_vars

(* -------------------- menu service: validateRating --------------------- *)
\* a call validateRating(rating)
validateRatingCall ==
  /\ verdict = NoVerdict
  /\ verdict' = validateRating(rating)
  /\ UNCHANGED <<cache, orders, now, req, last, started, checkout, rating, auth>>

\* the rating check, for every value of Ratings
InitRating ==
  /\ cache = [k \in Keys |-> NoEntry]
  /\ orders = <<>>
  /\ now = 0
  /\ req = [r \in Reqs |-> Idle]
  /\ last = NoLast
  /\ started = 0
  /\ checkout = [k \in Keys |-> NoCheckout]
  /\ rating \in Ratings
  /\ verdict = NoVerdict
  /\ users = NoUsers
  /\ reg = [r \in Reqs |-> NoRegister]
  /\ regLast = NoRegLast

NextRating == validateRatingCall

SpecRating == InitRating /\ [][NextRating]_vars

(* -------------------- user service: POST /api/auth/register ------------ *)
\* the rows SELECT id FROM users WHERE email = ? returns
selectByEmail(email) ==
  {i \in 1..Len(users.rows) : Collate(users.rows[i].email) = Collate(email)}

\* res.status(code).json(...) of register request r; err is the error the
\* query handed to its callback, id the insertId
registerRespond(r, body, code, error, err, id) ==
  /\ reg' = [reg EXCEPT ![r] = NoRegister]
  /\ regLast' = [body |-> body, code |-> code, error |-> error, err |-> err,
                 id |-> id, before |-> users.rows]

\* the handler up to db.query(SELECT ...): the validations
registerStart(r, in) ==
  /\ reg[r].pc = "idle"
  /\ \A q \in 1..(r - 1) : reg[q].pc # "idle"
  /\ started < MaxReqs
  /\ started' = started + 1
  /\ IF in.email = <<>> \/ in.password = <<>> \/ in.full_name = ""
     THEN registerRespond(r, in, 400,
                          "Email, password, and full name are required",
                          "none", 0)
     ELSE IF ~emailRegexTest(in.email)
     THEN registerRespond(r, in, 400, "Invalid email format", "none", 0)
     ELSE IF Len(in.password) < 6
     THEN registerRespond(r, in, 400,
                          "Password must be at least 6 characters long",
                          "none", 0)
     ELSE /\ reg' = [reg EXCEPT ![r] = [pc |-> "select", body |-> in,
                                        password_hash |-> NoHash]]
          /\ UNCHANGED regLast
  /\ UNCHANGED <<cache, orders, now, req, last, checkout, menu, users>>

\* the callback of the SELECT, up to await bcrypt.hash
registerSelect(r, ok) ==
  /\ reg[r].pc = "select"
  /\ IF ~ok
     THEN registerRespond(r, reg[r].body, 500, "Database error", "ER_QUERY", 0)
     ELSE IF selectByEmail(reg[r].body.email) # {}
     THEN registerRespond(r, reg[r].body, 409, "Email already registered",
                          "none", 0)
     ELSE /\ reg' = [reg EXCEPT ![r].pc = "hash"]
          /\ UNCHANGED regLast
  /\ UNCHANGED <<cache, orders, now, req, last, started, checkout, menu, users>>

\* bcrypt.hash resolves; the handler issues the INSERT
registerHash(r) ==
  /\ reg[r].pc = "hash"
  /\ reg' = [reg EXCEPT ![r].pc = "insert",
                        ![r].password_hash = bcryptHash(reg[r].body.password)]
  /\ UNCHANGED <<cache, orders, now, req, last, started, checkout, menu, users,
                 regLast>>

\* the INSERT and its callback.  email is UNIQUE: an insert of an email the
\* table holds fails with ER_DUP_ENTRY (and uses up an AUTO_INCREMENT value)
registerInsert(r, ok) ==
  /\ reg[r].pc = "insert"
  /\ IF ~ok
     THEN /\ registerRespond(r, reg[r].body, 500, "Failed to create user",
                             "ER_QUERY", 0)
          /\ UNCHANGED users
     ELSE IF selectByEmail(reg[r].body.email) # {}
     THEN /\ registerRespond(r, reg[r].body, 500, "Failed to create user",
                             "ER_DUP_ENTRY", 0)
          /\ users' = [users EXCEPT !.autoInc = @ + 1]
     ELSE /\ users' = [rows |-> Append(users.rows,
                                       [id |-> users.autoInc,
                                        email |-> reg[r].body.email,
                                        password_hash |-> reg[r].password_hash,
                                        full_name |-> reg[r].body.full_name,
                                        phone |-> reg[r].body.phone]),
                       autoInc |-> users.autoInc + 1]
          /\ registerRespond(r, reg[r].body, 201, "", "none", users.autoInc)
  /\ UNCHANGED <<cache, orders, now, req, last, started, checkout, menu>>

\* the user service's registration alone
InitRegister ==
  /\ cache = [k \in Keys |-> NoEntry]
  /\ orders = <<>>
  /\ now = 0
  /\ req = [r \in Reqs |-> Idle]
  /\ last = NoLast
  /\ started = 0
  /\ checkout = [k \in Keys |-> NoCheckout]
  /\ rating = Undefined
  /\ verdict = NoVerdict
  /\ users = NoUsers
  /\ reg = [r \in Reqs |-> NoRegister]
  /\ regLast = NoRegLast

NextRegister ==
  \/ \E r \in Reqs, in \in RegisterInputs : registerStart(r, in)
  \/ \E r \in Reqs, ok \in BOOLEAN : registerSelect(r, ok)
  \/ \E r \in Reqs : registerHash(r)
  \/ \E r \in Reqs, ok \in BOOLEAN : registerInsert(r, ok)

SpecRegister == InitRegister /\ [][NextRegister]_vars

(* ======================== properties =================================== *)
\* the cart stored under key k
StoredCart(k) == Parse(cache[k].data)

\* sum of price * quantity, from the head of the list
RECURSIVE SumPriceQty(_)
SumPriceQty(items) ==
  IF items = <<>> THEN 0
  ELSE Head(items).price * Head(items).quantity + SumPriceQty(Tail(items))

\* this step answers a request (the answer is in last')
Answers ==
  \/ \E r \in Reqs : req[r].pc # "idle" /\ req'[r].pc = "idle"
  \/ started' # started /\ req' = req

\* this step is a step of the running request r of route k
StepOf(r, k) == req[r].kind = k /\ req'[r] # req[r]

\* the fields of an order other than status and updatedAt
Frozen(o) ==
  <<o._id, o.userId, o.items, o.totalAmount, o.deliveryAddress, o.notes,
    o.paymentMethod, o.createdAt>>

\* C1: every cart record in the cache has total = sum over its items of
\* price * quantity.
C1_TotalIsSum ==
  \A k \in Keys :
    cache[k].has => StoredCart(k).total = SumPriceQty(StoredCart(k).items)

C1_Witness ==
  /\ last.kind = "updateItemQuantity" /\ last.code = 200
  /\ \E k \in Keys : /\ cache[k].has
                     /\ Len(StoredCart(k).items) = 2
                     /\ StoredCart(k).total # 0

\* C2: a step of placeOrder changes the cache only by deleting the user's
\* key, and only after the order insert of the same request succeeded; the
\* step in which the insert fails leaves the cache as it was and answers 500.
C2_DeleteAfterInsert ==
  [][\A r \in Reqs :
       StepOf(r, "placeOrder") =>
         /\ cache' # cache =>
              /\ req[r].local.result \in 1..Len(orders)
              /\ orders[req[r].local.result].items = req[r].local.cart.items
              /\ orders[req[r].local.result].createdAt = req[r].local.order.createdAt
              /\ cache' = [cache EXCEPT ![KeyOf(r)] = NoEntry]
         /\ (req[r].pc = "insertOne" /\ orders' = orders) =>
              /\ cache' = cache
              /\ req'[r].pc = "idle"
              /\ last'.kind = "placeOrder" /\ last'.code = 500]_vars

C2_Witness ==
  /\ last.kind = "placeOrder" /\ last.code = 500
  /\ last.local.order.status = "pending" /\ last.local.result = 0
  /\ cache[getCartKey(last.args.userId)].has
  /\ StoredCart(getCartKey(last.args.userId)).items = last.local.cart.items

\* C3 as claimed: after placeOrder answered 201 for a user, the cart of the
\* user is empty as long as no cart write issued after the answer was
\* accepted, also when other cart requests overlapped the checkout.
C3_EmptyAfterCheckout ==
  \A k \in Keys : (checkout[k].done /\ ~checkout[k].accepted) => ~cache[k].has

\* C3 as amended: after placeOrder answered 201 for a user, the cart of the
\* user is empty, and getCart answers {items: [], total: 0}, until the next
\* cart write of the user takes effect (which may be the write of a request
\* that read the cart before the checkout deleted it).
C3_EmptyUntilNextWrite ==
  \A k \in Keys :
    (checkout[k].done /\ ~checkout[k].written) =>
      /\ ~cache[k].has
      /\ (last.kind = "getCart" /\ last.code = 200
            /\ getCartKey(last.args.userId) = k) => last.cart = EmptyCart

C3_Witness ==
  /\ last.kind = "placeOrder" /\ last.code = 201
  /\ \E r \in Reqs :
       /\ req[r].kind = "addItem" /\ req[r].pc = "setEx"
       /\ checkout[KeyOf(r)].done /\ ~checkout[KeyOf(r)].written
       /\ ~cache[KeyOf(r)].has

\* C4: a placeOrder answered 400 has inserted no order, and the step that
\* answers it changes neither the orders nor the cache.
C4_RejectHasNoEffect ==
  [][(Answers /\ last'.kind = "placeOrder" /\ last'.code = 400) =>
       /\ orders' = orders
       /\ cache' = cache
       /\ last'.local.result = 0]_vars

C4_Witness ==
  /\ last.kind = "placeOrder" /\ last.code = 400
  /\ last.error = "Cart is empty"
  /\ cache[getCartKey(last.args.userId)].has
  /\ StoredCart(getCartKey(last.args.userId)).items = <<>>

\* C5: the order inserted by placeOrder carries the items and total of the
\* cart the request read, status pending, notes '' and paymentMethod 'cash'
\* when not supplied; the 201 answer names it; getOrder answers the stored
\* document.
C5_OrderMatchesCheckout ==
  [][/\ \A r \in Reqs :
          (At(r, "placeOrder", "get") /\ req'[r].pc = "insertOne") =>
            /\ cache[KeyOf(r)].has
            /\ req'[r].local.cart = StoredCart(KeyOf(r))
     /\ \A r \in Reqs :
          (StepOf(r, "placeOrder") /\ req[r].pc = "insertOne"
             /\ orders' # orders) =>
            LET d == orders'[Len(orders')] IN
              /\ Len(orders') = Len(orders) + 1
              /\ d.items = req[r].local.cart.items
              /\ d.totalAmount = req[r].local.cart.total
              /\ d.status = "pending"
              /\ d.notes = (IF req[r].args.notes = NoStr THEN ""
                            ELSE req[r].args.notes)
              /\ d.paymentMethod = (IF req[r].args.paymentMethod = NoStr
                                    THEN "cash" ELSE req[r].args.paymentMethod)
              /\ d._id = Len(orders')
              /\ req'[r].local.result = d._id
     /\ (Answers /\ last'.kind = "placeOrder" /\ last'.code = 201) =>
          /\ last'.order._id = last'.local.result
          /\ Frozen(last'.order) = Frozen(orders[last'.local.result])
     /\ (Answers /\ last'.kind = "getOrder" /\ last'.code = 200) =>
          /\ last'.args.orderId.n \in 1..Len(orders)
          /\ last'.order = orders[last'.args.orderId.n]
          /\ last'.order._id = last'.args.orderId.n]_vars

C5_Witness ==
  /\ last.kind = "getOrder" /\ last.code = 200
  /\ last.order.status = "pending"
  /\ last.order.notes = "" /\ last.order.paymentMethod = "cash"
  /\ Len(last.order.items) = 1 /\ last.order.totalAmount = 20

\* C6: no step removes an order or changes any field of an existing order
\* other than status and updatedAt.
C6_OrdersFrozen ==
  [][/\ Len(orders') >= Len(orders)
     /\ \A i \in 1..Len(orders) : Frozen(orders'[i]) = Frozen(orders[i])]_vars

C6_Witness ==
  \E i \in 1..Len(orders) :
    /\ orders[i].status = "delivered"
    /\ orders[i].updatedAt > orders[i].createdAt

\* C7: no stored cart holds two items with the same itemId, and an addItem
\* lengthens the cart it read by one exactly when the itemId is not in it.
C7_UniqueItemIds ==
  /\ \A k \in Keys :
       cache[k].has =>
         \A i, j \in 1..Len(StoredCart(k).items) :
           i # j => StoredCart(k).items[i].itemId # StoredCart(k).items[j].itemId
  /\ \A r \in Reqs :
       (req[r].kind = "addItem" /\ req[r].pc = "setEx") =>
         \A i, j \in 1..Len(req[r].local.cart.items) :
           i # j => req[r].local.cart.items[i].itemId
                      # req[r].local.cart.items[j].itemId

C7_Witness ==
  /\ last.kind = "addItem" /\ last.code = 200
  /\ Len(last.cart.items) = 1
  /\ last.args.quantity = 2 /\ last.cart.items[1].quantity = 4
  /\ \E k \in Keys : cache[k].has /\ StoredCart(k) = last.cart

\* C8: addItem on a cart that holds itemId adds the given quantity to that
\* item and changes nothing else (name and price of the item included); on
\* a cart without itemId it appends one item at the end; the result is what
\* is stored and answered.
C8_AddItemMerges ==
  [][\A r \in Reqs :
       /\ (At(r, "addItem", "get") /\ req'[r].pc = "setEx") =>
            LET k == KeyOf(r)
                a == req[r].args
                old == IF cache[k].has THEN StoredCart(k).items ELSE <<>>
                new == req'[r].local.cart.items
            IN  IF \E i \in 1..Len(old) : old[i].itemId = a.itemId
                THEN /\ Len(new) = Len(old)
                     /\ \A i \in 1..Len(old) :
                          IF old[i].itemId = a.itemId
                          THEN new[i] = [itemId |-> old[i].itemId,
                                         itemName |-> old[i].itemName,
                                         price |-> old[i].price,
                                         quantity |-> old[i].quantity + a.quantity]
                          ELSE new[i] = old[i]
                ELSE /\ Len(new) = Len(old) + 1
                     /\ \A i \in 1..Len(old) : new[i] = old[i]
                     /\ new[Len(new)] = [itemId |-> a.itemId,
                                         itemName |-> a.itemName,
                                         price |-> a.price,
                                         quantity |-> a.quantity]
       /\ (StepOf(r, "addItem") /\ req[r].pc = "setEx" /\ last'.code = 200) =>
            /\ cache'[KeyOf(r)].has
            /\ Parse(cache'[KeyOf(r)].data) = req[r].local.cart
            /\ last'.cart = req[r].local.cart]_vars

C8_Witness ==
  /\ last.kind = "addItem" /\ last.code = 200
  /\ last.args.itemName = "Pasta" /\ last.args.quantity = -1
  /\ Len(last.cart.items) = 2
  /\ last.cart.items[1].itemId = Str(1)
  /\ last.cart.items[2] = [itemId |-> Num(1), itemName |-> "Pizza",
                           price |-> 10, quantity |-> 1]
  /\ StoredCart(getCartKey(last.args.userId)) = last.cart

\* C9: updateItemQuantity on a cart that holds the item removes it when
\* quantity <= 0 and otherwise sets its quantity, leaves the other items as
\* they are, recomputes total over the remaining items, and stores the cart
\* (also when it has become empty).
C9_UpdateItemQuantity ==
  [][\A r \in Reqs :
       /\ (At(r, "updateItemQuantity", "get") /\ req'[r].pc = "setEx") =>
            /\ cache[KeyOf(r)].has
            /\ LET old == StoredCart(KeyOf(r)).items
                   new == req'[r].local.cart
                   q == req[r].args.quantity
               IN  /\ \E i \in 1..Len(old) :
                        /\ old[i].itemId = Num(req[r].args.itemId.n)
                        /\ IF q <= 0
                           THEN /\ Len(new.items) = Len(old) - 1
                                /\ \A j \in 1..Len(new.items) :
                                     new.items[j] = old[IF j < i THEN j ELSE j + 1]
                           ELSE /\ Len(new.items) = Len(old)
                                /\ \A j \in 1..Len(old) :
                                     IF j = i
                                     THEN new.items[j] =
                                            [itemId |-> old[j].itemId,
                                             itemName |-> old[j].itemName,
                                             price |-> old[j].price,
                                             quantity |-> q]
                                     ELSE new.items[j] = old[j]
                   /\ new.total = SumPriceQty(new.items)
       /\ (StepOf(r, "updateItemQuantity") /\ req[r].pc = "setEx"
             /\ last'.code = 200) =>
            /\ cache'[KeyOf(r)].has
            /\ Parse(cache'[KeyOf(r)].data) = req[r].local.cart
            /\ cache'[KeyOf(r)].exp = now + TTL
            /\ last'.cart = req[r].local.cart]_vars

C9_Witness ==
  /\ last.kind = "updateItemQuantity" /\ last.code = 200
  /\ last.args.quantity = 0
  /\ cache[getCartKey(last.args.userId)].has
  /\ StoredCart(getCartKey(last.args.userId)) = EmptyCart

\* C10: updateItemQuantity answers 404 exactly when there is no cart record
\* or the cart has no item with the given itemId, and then it writes nothing
\* (contents and time-to-live stay); and it does not answer 404 when the URL
\* names the id of an item that addItem put in the cart.
C10_NotFoundIffAbsent ==
  [][\A r \in Reqs :
       (StepOf(r, "updateItemQuantity") /\ req[r].pc = "get"
          /\ ~(req'[r].pc = "idle" /\ last'.code = 500)) =>
         LET k == KeyOf(r)
             items == StoredCart(k).items
             notFound == req'[r].pc = "idle" /\ last'.code = 404
         IN  /\ notFound <=>
                  \/ ~cache[k].has
                  \/ \A i \in 1..Len(items) :
                       items[i].itemId # Num(req[r].args.itemId.n)
             /\ notFound => (cache' = cache /\ now' = now)
             /\ (cache[k].has
                   /\ \E i \in 1..Len(items) :
                        ToStr(items[i].itemId) = req[r].args.itemId)
                  => ~notFound]_vars

\* C11: a status update whose status is not one of pending, confirmed,
\* preparing, out_for_delivery, delivered, cancelled is answered 400 and
\* leaves every order as it was (status and updatedAt included); so every
\* stored order always has one of these six statuses.
C11_StatusAlwaysValid ==
  [][/\ (Answers /\ last'.kind = "updateOrderStatus"
          /\ last'.args.status \notin {"pending", "confirmed", "preparing",
                                       "out_for_delivery", "delivered",
                                       "cancelled"})
         => /\ last'.code = 400
            /\ last'.error = "Invalid status"
            /\ orders' = orders
     /\ \A i \in 1..Len(orders') :
          orders'[i].status \in {"pending", "confirmed", "preparing",
                                 "out_for_delivery", "delivered", "cancelled"}]_vars

C11_Witness ==
  /\ last.kind = "updateOrderStatus" /\ last.code = 400
  /\ last.args.status = "bogus"
  /\ last.args.orderId = Oid(1)
  /\ Len(orders) = 1
  /\ orders[1].status = "pending"

\* C12: getOrder answers 404 both when no order has the given id and when
\* the id is not a well-formed identifier; a malformed id is never answered
\* with a server error.
C12_MalformedIsNotFound ==
  [][(Answers /\ last'.kind = "getOrder") =>
       /\ ~last'.args.orderId.wf => last'.code = 404
       /\ (last'.args.orderId.wf /\ findOne(last'.args.orderId) = 0
             /\ last'.code # 500) => last'.code = 404]_vars

\* C13: the cart's time-to-live is a sliding window. Every successful
\* addItem/updateItemQuantity write sets the key's expiry to 86,400 s after
\* the write; a record is present only less than 86,400 s after its last
\* write, and stays present that long unless it is deleted; requests that do
\* not write (getCart, a 404 update, a rejected placeOrder) leave contents
\* and expiry alone; once the record is gone getCart answers the empty cart
\* and placeOrder answers 400 'Cart is empty'.
C13_SlidingExpiry ==
  [][/\ \A r \in Reqs :
          LET k == KeyOf(r)
              answered == req'[r].pc = "idle"
          IN
            /\ (req[r].kind \in {"addItem", "updateItemQuantity"}
                  /\ req[r].pc = "setEx" /\ answered /\ last'.code = 200)
                 => (cache'[k].has /\ cache'[k].exp = now + 86400)
            /\ (StepOf(r, "getCart")
                  \/ (StepOf(r, "updateItemQuantity") /\ answered
                        /\ last'.code = 404)
                  \/ (StepOf(r, "placeOrder") /\ answered /\ last'.code = 400))
                 => cache' = cache
            /\ (StepOf(r, "getCart") /\ ~cache[k].has /\ last'.code # 500)
                 => (last'.code = 200
                       /\ last'.cart = [items |-> <<>>, total |-> 0])
            /\ (StepOf(r, "placeOrder") /\ req[r].pc = "get" /\ ~cache[k].has
                  /\ last'.code # 500)
                 => (answered /\ last'.code = 400
                       /\ last'.error = "Cart is empty")
     /\ \A k \in Keys :
          /\ cache'[k].has
               => (now' < cache'[k].exp /\ cache'[k].exp <= now' + 86400)
          /\ (now' # now /\ cache[k].has /\ now' < cache[k].exp)
               => cache'[k] = cache[k]]_vars

C13_Witness ==
  /\ now >= 86400
  /\ last.kind = "updateItemQuantity" /\ last.code = 200
  /\ cache[getCartKey(last.args.userId)].has
  /\ cache[getCartKey(last.args.userId)].exp > 86400
  /\ Len(StoredCart(getCartKey(last.args.userId)).items) = 1

\* C14: updateOrderStatus enforces no transition graph. A request with one
\* of the six statuses and a well-formed id is never turned away for the
\* status the order has; when its updateOne finds the order it answers 200,
\* sets status to the requested one whatever the status was (delivered and
\* cancelled included) and sets updatedAt to the time of the call.
C14_AnyTransition ==
  [][/\ ~(Answers /\ req' = req /\ last'.kind = "updateOrderStatus"
            /\ last'.args.status \in validStatuses
            /\ last'.args.orderId.wf)
     /\ \A r \in Reqs :
          /\ (req[r].pc = "idle" /\ req'[r].kind = "updateOrderStatus"
                /\ req'[r].pc = "updateOne")
               => req'[r].local.order.updatedAt = now
          /\ (StepOf(r, "updateOrderStatus") /\ req[r].pc = "updateOne"
                /\ last'.code # 500)
               => LET i == req[r].args.orderId.n
                      t == req[r].args.status
                  IN  IF i \in 1..Len(orders)
                      THEN /\ last'.code = 200
                           /\ orders'[i].status = t
                           /\ orders'[i].updatedAt = req[r].local.order.updatedAt
                      ELSE last'.code = 404 /\ orders' = orders]_vars

C14_Witness ==
  /\ last.kind = "updateOrderStatus" /\ last.code = 200
  /\ last.args.status = "preparing"
  /\ Len(orders) = 1
  /\ last.before.orders[1].status \in {"delivered", "cancelled"}
  /\ orders[1].status = "preparing"
  /\ orders[1].updatedAt > last.before.orders[1].updatedAt

\* C15: validateRating(r) answers valid exactly when r converts to an integer
\* from 1 to 5; otherwise it answers the first error that applies, in this
\* order: 'Rating is required' for undefined or null, 'Rating must be a
\* number' for a value that converts to no number, 'Rating must be between 1
\* and 5' for a number below 1 or above 5, 'Rating must be a whole number'
\* for a number in the range that is not an integer.
C15_ValidateRating ==
  verdict # NoVerdict =>
    LET num == ToNumber(rating)
        missing == rating.t \in {"undefined", "null"}
        twice == 2 * num.i + (IF num.half THEN 1 ELSE 0)
        outside == num.t = "number" /\ (num.inf # 0 \/ twice < 2 \/ twice > 10)
    IN  /\ verdict.valid <=>
             (~missing /\ num.t = "number" /\ num.inf = 0
                /\ twice \in {2, 4, 6, 8, 10})
        /\ ~verdict.valid =>
             verdict.error =
               IF missing THEN "Rating is required"
               ELSE IF num.t = "NaN" THEN "Rating must be a number"
               ELSE IF outside THEN "Rating must be between 1 and 5"
               ELSE "Rating must be a whole number"
        /\ verdict.error = "Rating must be a whole number" =>
             twice \in {3, 5, 7, 9}

C15_Witness ==
  /\ rating = Literal(3, TRUE)
  /\ verdict = [valid |-> FALSE, error |-> "Rating must be a whole number"]

\* C16: the cart's read-modify-write is not atomic: the last writer wins. A
\* successful addItem/updateItemQuantity write stores the cart its request
\* computed from the record it read, whatever the record holds at the time of
\* the write; an item another request stored in between, which the writer
\* did not read, is gone although both requests were answered 200.
C16_LastWriterWins ==
  [][\A r \in Reqs :
       (req[r].kind \in {"addItem", "updateItemQuantity"}
          /\ req[r].pc = "setEx" /\ req'[r].pc = "idle" /\ last'.code = 200)
         => LET k == KeyOf(r)
                mine == req[r].local.cart.items
                theirs == StoredCart(k).items
                stored == Parse(cache'[k].data).items
            IN  /\ stored = mine
                /\ last'.before.carts[k].data = cache[k].data
                /\ \A i \in 1..Len(theirs) :
                     (\A j \in 1..Len(mine) :
                        mine[j].itemId # theirs[i].itemId)
                       => \A j \in 1..Len(stored) :
                            stored[j].itemId # theirs[i].itemId]_vars

C16_Witness ==
  LET k == getCartKey(last.args.userId)
      lost == Parse(last.before.carts[k].data).items
  IN  /\ last.kind = "addItem" /\ last.code = 200
      /\ last.before.carts[k].has
      /\ cache[k].has
      /\ StoredCart(k) = last.cart
      /\ Len(last.cart.items) = 1
      /\ Len(lost) = 1
      /\ lost[1].itemId # last.cart.items[1].itemId

\* C17: checkout has no compensating rollback. When the order insert has
\* succeeded and the cart delete fails, the request is answered 500, the
\* inserted order stays in the store and the cart stays as it was; no step
\* ever removes an order. A retry then reads the same cart and inserts a
\* second order with the same items and totalAmount.
C17_NoRollback ==
  [][/\ \A r \in Reqs :
          (StepOf(r, "placeOrder") /\ req[r].pc = "del"
             /\ req'[r].pc = "idle" /\ last'.code # 201)
            => /\ last'.code = 500
               /\ last'.error = "Failed to place order"
               /\ cache' = cache
               /\ orders' = orders
               /\ req[r].local.result \in 1..Len(orders)
               /\ orders[req[r].local.result].items = req[r].local.cart.items
     /\ Len(orders') >= Len(orders)
     /\ \A i \in 1..Len(orders) : Frozen(orders'[i]) = Frozen(orders[i])]_vars

C17_Witness ==
  /\ last.kind = "placeOrder" /\ last.code = 500
  /\ last.local.result = 1
  /\ Len(last.before.orders) = 1
  /\ Len(orders) = 2
  /\ orders[1].items = orders[2].items
  /\ orders[1].totalAmount = orders[2].totalAmount
  /\ \E r \in Reqs : /\ At(r, "placeOrder", "del")
                     /\ req[r].local.result = 2
                     /\ cache[KeyOf(r)].has
                     /\ StoredCart(KeyOf(r)).items = orders[1].items

\* C18: addItem does not validate quantity. Whatever the quantity (zero and
\* negative included), an addItem whose read succeeds goes on to write a
\* cart that keeps the item, with the quantity it had (0 when new) plus the
\* given one, and the total that follows, negative or not; and placeOrder
\* accepts every stored cart with at least one item, whatever its
\* quantities and total.
C18_QuantityNotValidated ==
  [][\A r \in Reqs :
       /\ (StepOf(r, "addItem") /\ req[r].pc = "get" /\ req'[r].pc # "idle")
            => LET k == KeyOf(r)
                   old == IF cache[k].has THEN StoredCart(k).items ELSE <<>>
                   new == req'[r].local.cart
                   id == req[r].args.itemId
                   had == {i \in 1..Len(old) : old[i].itemId = id}
                   q == IF had = {} THEN 0
                        ELSE old[CHOOSE i \in had : TRUE].quantity
               IN  /\ req'[r].pc = "setEx"
                   /\ Len(new.items) >= Len(old)
                   /\ \E j \in 1..Len(new.items) :
                        /\ new.items[j].itemId = id
                        /\ new.items[j].quantity = q + req[r].args.quantity
                   /\ new.total = SumPriceQty(new.items)
       /\ (StepOf(r, "placeOrder") /\ req[r].pc = "get"
             /\ cache[KeyOf(r)].has
             /\ Len(StoredCart(KeyOf(r)).items) >= 1
             /\ ~(req'[r].pc = "idle" /\ last'.code = 500))
            => /\ req'[r].pc = "insertOne"
               /\ req'[r].local.order.items = StoredCart(KeyOf(r)).items
               /\ req'[r].local.order.totalAmount = StoredCart(KeyOf(r)).total]_vars

C18_Witness ==
  /\ last.kind = "placeOrder" /\ last.code = 201
  /\ Len(orders) = 1
  /\ Len(orders[1].items) = 1
  /\ orders[1].items[1].quantity < 0
  /\ orders[1].totalAmount < 0
  /\ last.order.totalAmount = orders[1].totalAmount

\* C19: every cart is converted into at most one order. With cart deletes
\* that succeed, no checkout is answered 201 for a user when an earlier
\* checkout of that user was answered 201 and no cart write has taken effect
\* since: two placeOrder requests never both succeed on the same cart
\* contents.
C19_OneOrderPerCart ==
  [][\A r \in Reqs :
       (StepOf(r, "placeOrder") /\ req[r].pc = "del"
          /\ req'[r].pc = "idle" /\ last'.code = 201)
         => ~(checkout[KeyOf(r)].done /\ ~checkout[KeyOf(r)].written)]_vars

\* C20: no item that addItem stored is lost at checkout: the cart record a
\* successful checkout deletes holds only items that are in the order this
\* checkout inserted, so that every stored item is afterwards in the cart or
\* in an order.
C20_NoItemLostAtCheckout ==
  [][\A r \in Reqs :
       (StepOf(r, "placeOrder") /\ req[r].pc = "del"
          /\ req'[r].pc = "idle" /\ last'.code = 201 /\ cache[KeyOf(r)].has)
         => LET deleted == StoredCart(KeyOf(r)).items
                ordered == orders[req[r].local.result].items
            IN  \A i \in 1..Len(deleted) :
                  \E j \in 1..Len(ordered) :
                    ordered[j].itemId = deleted[i].itemId]_vars

\* C21: no two rows of the users table ever share an email; and a register
\* request that is answered when its email is already in the table (the
\* query itself not failing) is answered 409 'Email already registered' and
\* adds no row, also when the row was inserted by a concurrent request after
\* this request's existence check.
C21_EmailUniqueAndConflict ==
  [][/\ \A i, j \in 1..Len(users'.rows) :
          i # j => users'.rows[i].email # users'.rows[j].email
     /\ \A r \in Reqs :
          (reg[r].pc \in {"select", "insert"} /\ reg'[r].pc = "idle"
             /\ regLast'.err # "ER_QUERY"
             /\ \E i \in 1..Len(users.rows) :
                  users.rows[i].email = reg[r].body.email)
            => /\ regLast'.code = 409
               /\ regLast'.error = "Email already registered"
               /\ users'.rows = users.rows]_vars
====
